---- MODULE Spec2Model ----
(***************************************************************************)
(* Model of the prototypical-network repository:                           *)
(*   src/src/mini_imagenet_dataset.py  MiniImageNet (manifest -> labels,   *)
(*                                     indexed access)                     *)
(*   src/src/loss_function.py          euclidean_dist, prototypical_loss,  *)
(*                                     gaussian_dist                       *)
(* Three specifications share the variables: SpecDataset runs the          *)
(* constructor loop row by row and then indexed accesses; SpecLoss and     *)
(* SpecGauss draw the inputs of the pure tensor functions from bounded     *)
(* sets and apply them.  Tensors are sequences of rows, 1-based; a Python  *)
(* index i is the TLA+ index i+1.                                          *)
(***************************************************************************)
EXTENDS Integers, Sequences, FiniteSets, TLC

VARIABLES pc, ret,
          lines, missing, k, wnids, data, label, lb, self_data, self_label,
          n_classes, n_query, prototypes, query_samples, locals,
          gx, gy, sigmas, mode

vars == <<pc, ret, lines, missing, k, wnids, data, label, lb, self_data,
          self_label, n_classes, n_query, prototypes, query_samples, locals,
          gx, gy, sigmas, mode>>

datasetVars == <<lines, missing, k, wnids, data, label, lb, self_data, self_label>>
lossVars    == <<n_classes, n_query, prototypes, query_samples, locals>>
gaussVars   == <<gx, gy, sigmas, mode>>

\* ---------------------------------------------------------------- bounds
MaxRows == 3
MaxClasses == 2
MaxQuery == 2
MaxDim == 2
MaxPoints == 2
MaxDimX == 4

\* ------------------------------------------------------- generic helpers
NoValue == [kind |-> "none"]

\* The sequence <<F(1), ..., F(n)>>, built element by element.
MkSeq(n, F(_)) ==
    LET build[i \in 0..n] == IF i = 0 THEN <<>> ELSE Append(build[i - 1], F(i))
    IN build[n]

SeqsUpTo(S, n) == UNION {[1..m -> S] : m \in 0..n}

\* The other components' variables, parked while one specification runs.
DatasetIdle ==
    /\ lines = <<>> /\ missing = {} /\ k = 0 /\ wnids = <<>> /\ data = <<>>
    /\ label = <<>> /\ lb = -1 /\ self_data = <<>> /\ self_label = <<>>

LossIdle ==
    /\ n_classes = 1 /\ n_query = 1 /\ prototypes = <<>> /\ query_samples = <<>>
    /\ locals = NoValue

GaussIdle ==
    /\ gx = <<>> /\ gy = <<>> /\ sigmas = <<>> /\ mode = "radial"

\* ================================================================
\* mini_imagenet_dataset.py
\* ================================================================
FileNames == {"img1", "img2"}
ClassIds  == {"a", "b", "c"}

\* A manifest line after strip(), as the list l.split(',') returns: a
\* well-formed line has exactly two fields, name and wnid.
WellFormedLines == {<<nm, w>> : nm \in FileNames, w \in ClassIds}
MalformedLines  == {<<"img1">>, <<"img1", "a", "x">>}
ManifestLines   == WellFormedLines \cup MalformedLines

\* osp.join(root + 'data/', name)
JoinPath(name) == <<"data/", name>>

\* self.transform(Image.open(path).convert('RGB')): the decoded, transformed
\* content of the file at path (a deterministic function of the file).
LoadImage(path) == [pixels_of |-> path[2], size |-> 84]

\* Variant: the membership test looks at the most recent class only.
NotInWnidsLastOnly(w, ws) == ws = <<>> \/ ws[Len(ws)] # w

\* wnid not in self.wnids
NotInWnids(w, ws) == \A j \in 1..Len(ws) : ws[j] # w

\* Python list indexing lst[i] for a list of length n: 0-based, negative
\* indices count from the end; anything else is an IndexError.
PyIndexOk(i, n) == i \in (0 - n)..(n - 1)
PyIndex(i, n)   == IF i >= 0 THEN i + 1 ELSE n + i + 1

InitDataset ==
    /\ lines \in SeqsUpTo(ManifestLines, MaxRows)
    /\ missing \in SUBSET FileNames
    /\ k = 0
    /\ data = <<>> /\ label = <<>> /\ lb = -1 /\ wnids = <<>>
    /\ self_data = <<>> /\ self_label = <<>>
    /\ pc = "loop" /\ ret = NoValue
    /\ LossIdle /\ GaussIdle

\* One iteration of "for l in lines" (lines 22-29).
LoopRow ==
    /\ pc = "loop" /\ k < Len(lines)
    /\ LET l == lines[k + 1] IN
        IF Len(l) # 2
        THEN \* name, wnid = l.split(',') cannot unpack
             /\ pc' = "raised"
             /\ ret' = [kind |-> "ValueError"]
             /\ UNCHANGED <<k, wnids, data, label, lb>>
        ELSE LET name == l[1]
                 wnid == l[2]
                 fresh == NotInWnids(wnid, wnids)
                 lb1 == IF fresh THEN lb + 1 ELSE lb
             IN /\ wnids' = IF fresh THEN Append(wnids, wnid) ELSE wnids
                /\ lb' = lb1
                /\ data' = Append(data, JoinPath(name))
                /\ label' = Append(label, lb1)
                /\ k' = k + 1
                /\ UNCHANGED <<pc, ret>>
    /\ UNCHANGED <<lines, missing, self_data, self_label>>
    /\ UNCHANGED <<lossVars, gaussVars>>

\* Loop exhausted: self.data = data; self.label = label (lines 31-32).
FinishInit ==
    /\ pc = "loop" /\ k = Len(lines)
    /\ self_data' = data
    /\ self_label' = label
    /\ pc' = "ready"
    /\ UNCHANGED <<ret, lines, missing, k, wnids, data, label, lb>>
    /\ UNCHANGED <<lossVars, gaussVars>>

\* __len__ (lines 41-42).
LenCall ==
    /\ pc = "ready"
    /\ ret' = [kind |-> "len", value |-> Len(self_data)]
    /\ UNCHANGED <<pc, datasetVars, lossVars, gaussVars>>

\* What __getitem__(i) produces on the stored lists (lines 44-47).
GetItemResult(i, paths, labels, gone) ==
    IF ~PyIndexOk(i, Len(paths)) \/ ~PyIndexOk(i, Len(labels))
    THEN [kind |-> "IndexError", index |-> i]
    ELSE LET path == paths[PyIndex(i, Len(paths))]
             lab  == labels[PyIndex(i, Len(labels))]
         IN IF path[2] \in gone
            THEN [kind |-> "FileNotFoundError", index |-> i]
            ELSE [kind |-> "item", index |-> i, image |-> LoadImage(path),
                  label |-> lab]

\* Variant: a failed access evicts the unreadable entry from the lists.
GetItemEvicting ==
    /\ pc = "ready"
    /\ \E i \in (0 - Len(self_data) - 1)..Len(self_data) :
          LET r == GetItemResult(i, self_data, self_label, missing)
              p == PyIndex(i, Len(self_data))
              Drop(s) == [j \in 1..(Len(s) - 1) |-> IF j < p THEN s[j] ELSE s[j + 1]]
          IN /\ ret' = r
             /\ IF r.kind = "FileNotFoundError"
                THEN self_data' = Drop(self_data) /\ self_label' = Drop(self_label)
                ELSE UNCHANGED <<self_data, self_label>>
    /\ UNCHANGED <<pc, lines, missing, k, wnids, data, label, lb>>
    /\ UNCHANGED <<lossVars, gaussVars>>

GetItem ==
    /\ pc = "ready"
    /\ \E i \in (0 - Len(self_data) - 1)..Len(self_data) :
          ret' = GetItemResult(i, self_data, self_label, missing)
    /\ UNCHANGED <<pc, datasetVars, lossVars, gaussVars>>

NextDataset == LoopRow \/ FinishInit \/ LenCall \/ GetItem

SpecDataset == InitDataset /\ [][NextDataset]_vars

\* ------------------------------------------------- claims on the dataset
\* Zero-based position of the first occurrence of class w among the rows.
FirstSeenRank(w) ==
    LET first == CHOOSE r \in 1..Len(lines) :
                    /\ lines[r][2] = w
                    /\ \A q \in 1..(r - 1) : lines[q][2] # w
    IN Cardinality({lines[q][2] : q \in 1..first}) - 1

\* C1: after construction every row's label is the dense zero-based index of
\* its class identifier in first-seen order, so two rows have the same label
\* exactly when they have the same class identifier, contiguous or not.
C1_LabelIsFirstSeenIndex ==
    pc = "ready" =>
        /\ Len(self_label) = Len(lines)
        /\ \A r \in 1..Len(lines) : self_label[r] = FirstSeenRank(lines[r][2])
        /\ \A r, q \in 1..Len(lines) :
              (self_label[r] = self_label[q]) <=> (lines[r][2] = lines[q][2])

\* The row a Python index addresses, stated on the manifest.
RowOfIndex(i) == IF i >= 0 THEN i + 1 ELSE Len(lines) + i + 1

\* The label the constructor gave row r: the number of distinct classes
\* among rows 1..r, minus one.
ConstructedLabel(r) == Cardinality({lines[q][2] : q \in 1..r}) - 1

AccessOutcome ==
    /\ ret.kind = "len" => ret.value = Len(lines)
    /\ ret.kind = "item" =>
          LET r == RowOfIndex(ret.index) IN
          /\ r \in 1..Len(lines)
          /\ lines[r][1] \notin missing
          /\ ret.image = LoadImage(JoinPath(lines[r][1]))
          /\ ret.label = ConstructedLabel(r)
    /\ ret.kind = "FileNotFoundError" =>
          /\ RowOfIndex(ret.index) \in 1..Len(lines)
          /\ lines[RowOfIndex(ret.index)][1] \in missing
    /\ ret.kind = "IndexError" => RowOfIndex(ret.index) \notin 1..Len(lines)

\* C6: on a constructed dataset no access, failing or not, changes the path
\* list, the label list or the class list; every access returns what the
\* manifest row and the file system alone determine (a missing file gives
\* FileNotFoundError, any other index its image and label), and __len__
\* returns the number of manifest rows.
C6_AccessLeavesDatasetIntact ==
    /\ [](pc = "ready" => AccessOutcome)
    /\ [][pc = "ready" =>
            /\ self_data' = self_data
            /\ self_label' = self_label
            /\ wnids' = wnids
            /\ pc' = "ready"]_vars

C6_Witness ==
    /\ pc = "ready"
    /\ ret.kind = "FileNotFoundError"
    /\ Len(self_data) = 3
    /\ \E r \in 1..Len(lines) : lines[r][1] \notin missing

NoDuplicates(s) == \A i, j \in 1..Len(s) : i # j => s[i] # s[j]

LoopInvariant ==
    /\ Len(data) = k /\ Len(label) = k
    /\ k <= Len(lines)
    /\ NoDuplicates(wnids)
    /\ lb = Len(wnids) - 1
    /\ \A r \in 1..Len(label) : label[r] \in 0..(Len(wnids) - 1)
    /\ \A r \in 1..(Len(label) - 1) : label[r] <= label[r + 1]
    /\ pc = "ready" =>
          /\ Len(self_data) = Len(lines)
          /\ Len(self_label) = Len(lines)
          /\ ret.kind = "len" => ret.value = Len(lines)

\* C10: after any k processed rows the path list and the label list have
\* length k, wnids holds no duplicate, lb = len(wnids) - 1, each appended
\* label is lb at that moment, so labels are non-decreasing and lie in
\* [0, len(wnids)); at the end len(dataset) is the number of manifest rows.
C10_ConstructionLoopInvariant ==
    /\ []LoopInvariant
    /\ [][k' = k + 1 =>
            /\ label' = Append(label, lb')
            /\ Len(data') = Len(data) + 1
            /\ lb' \in {lb, lb + 1}]_vars

C10_Witness ==
    /\ pc = "ready" /\ ret.kind = "len"
    /\ Len(lines) = 3 /\ Len(wnids) = 2
    /\ lines[1][2] = lines[3][2]

\* ================================================================
\* loss_function.py: euclidean_dist and prototypical_loss
\* ================================================================
\* A 2-D tensor: rows x cols, val[i][k] the entry of row i, column k.
Tensor(n, d, v) == [rows |-> n, cols |-> d, val |-> v]

RECURSIVE SumSeq(_)
SumSeq(s) == IF s = <<>> THEN 0 ELSE Head(s) + SumSeq(Tail(s))

\* Variant: absolute value in place of the square.
AbsValue(v) == IF v < 0 THEN 0 - v ELSE v

\* torch.pow(v, 2)
Pow2(v) == v * v

\* Variant: the check compares the row counts.
RowCountMismatch(x, y) == x.rows # y.rows

\* if d != y.size(1): raise Exception   (lines 32-34)
DimMismatch(x, y) == x.cols # y.cols

\* t.unsqueeze(at).expand(n, m, d) of an r x c tensor (lines 36-37): the
\* new axis takes any size, an existing axis must have the requested size
\* or size 1 (which is then repeated).
ExpandOk(t, want_rows, d) ==
    /\ t.rows = want_rows \/ t.rows = 1
    /\ t.cols = d \/ t.cols = 1

ExpandedAt(t, r, c) ==
    t.val[IF t.rows = 1 THEN 1 ELSE r][IF t.cols = 1 THEN 1 ELSE c]

\* euclidean_dist(x, y), lines 24-39.
euclidean_dist(x, y) ==
    LET n == x.rows
        m == y.rows
        d == x.cols
    IN IF DimMismatch(x, y)
       THEN [kind |-> "Exception"]
       ELSE IF ~ExpandOk(x, n, d) \/ ~ExpandOk(y, m, d)
       THEN [kind |-> "RuntimeError", at |-> "expand"]
       ELSE LET x3(i, j, c) == ExpandedAt(x, i, c)
                y3(i, j, c) == ExpandedAt(y, j, c)
            IN [kind |-> "tensor", rows |-> n, cols |-> m,
                val |-> MkSeq(n, LAMBDA i : MkSeq(m, LAMBDA j :
                          SumSeq(MkSeq(d, LAMBDA c : Pow2(x3(i, j, c) - y3(i, j, c))))))]

\* F.log_softmax(-dists, dim=1): entry (i, j) is the score -dists[i][j]
\* minus the log-sum-exp of the scores of row i.  Every coordinate of the
\* inputs is 0 or 10, so two scores of a row are equal or at least 100
\* apart, and in floating point exp(-100) vanishes against
\* 1: the log-sum-exp is max + log(cnt), cnt the number of maximal scores.
\* An entry is kept as [rel, cnt], standing for the float rel - log(cnt)
\* with rel = score - max <= 0.
LogSoftmaxNeg(dists) ==
    MkSeq(dists.rows, LAMBDA i :
        LET row  == dists.val[i]
            least == CHOOSE v \in {row[j] : j \in 1..dists.cols} :
                        \A j \in 1..dists.cols : v <= row[j]
            cnt  == Cardinality({j \in 1..dists.cols : row[j] = least})
        IN CHOOSE out \in
              {MkSeq(dists.cols, LAMBDA j : [rel |-> top[1] - row[j], cnt |-> top[2]]) :
                  top \in {<<least, cnt>>}} : TRUE)

\* a > b for two log-probabilities [rel, cnt]: rel is 0 or at most -100,
\* log(cnt) is far below 100 and grows with cnt.
LogProbGreater(a, b) == a.rel > b.rel \/ (a.rel = b.rel /\ a.cnt < b.cnt)

\* Row-major flattening of an n x m tensor value.
Flatten(v, n, m) == MkSeq(n * m, LAMBDA e : v[((e - 1) \div m) + 1][((e - 1) % m) + 1])

\* Variant: any non-empty tensor is accepted, the remainder dropped.
ViewOkNonEmpty(numel, C, Q) == numel > 0

\* .view(n_classes, n_query, -1) on numel elements: the -1 is inferred; it
\* fails on an empty tensor and when numel is no multiple of C*Q.
ViewOk(numel, C, Q) == numel > 0 /\ numel % (C * Q) = 0

\* Variant: the last maximal index wins a tie.
ArgMaxLast(flat, base, K) ==
    (CHOOSE a \in 1..K :
        /\ \A b \in 1..K : ~LogProbGreater(flat[base + b], flat[base + a])
        /\ \A b \in (a + 1)..K : LogProbGreater(flat[base + a], flat[base + b])) - 1

\* tensor.max(dim) over one group of K entries, flat[base+1..base+K]: the
\* zero-based index of the maximum; among equal maxima the first one is
\* returned.
ArgMax(flat, base, K) ==
    (CHOOSE a \in 1..K :
        /\ \A b \in 1..K : ~LogProbGreater(flat[base + b], flat[base + a])
        /\ \A b \in 1..(a - 1) : LogProbGreater(flat[base + a], flat[base + b])) - 1

\* Shape of target_inds.squeeze(): every axis of size 1 is dropped.
Squeeze(shape) == SelectSeq(shape, LAMBDA e : e # 1)

\* y_hat.eq(target_inds.squeeze()).float().mean()  (line 64).  y_hat has
\* shape (C, Q); the squeezed target is broadcast against it from the right,
\* so a 1-D target of length C lines up with the LAST axis of y_hat.
\* yh[(c-1)*Q + q] is y_hat[c-1][q-1].  Returns <<number true, number of
\* entries>> of the broadcast comparison.
EqMean(yh, C, Q) ==
    LET tshape == Squeeze(<<C, Q, 1>>)
        \* pad the target shape on the left to two axes
        trows == IF Len(tshape) = 2 THEN tshape[1] ELSE 1
        tcols == IF Len(tshape) = 2 THEN tshape[2]
                 ELSE IF Len(tshape) = 1 THEN tshape[1] ELSE 1
        \* target value at padded index (i, j): the class axis is the first
        \* surviving axis unless it was squeezed away (C = 1)
        tval(i, j) == IF C = 1 THEN 0
                      ELSE IF Len(tshape) = 2 THEN i - 1 ELSE j - 1
        orows == IF C = 1 THEN trows ELSE C
        ocols == IF Q = 1 THEN tcols ELSE Q
        yval(i, j) == yh[((IF C = 1 THEN 1 ELSE i) - 1) * Q + (IF Q = 1 THEN 1 ELSE j)]
        tv(i, j) == tval(IF trows = 1 THEN 1 ELSE i, IF tcols = 1 THEN 1 ELSE j)
    IN <<Cardinality({ij \in (1..orows) \X (1..ocols) :
                        yval(ij[1], ij[2]) = tv(ij[1], ij[2])}),
         orows * ocols>>

\* Lines 54-66 on the distance tensor and the flattened log-probabilities.
LossFromLogProbs(C, Q, dists, flat) ==
    LET K == (dists.rows * dists.cols) \div (C * Q)
        \* log_p_y[c][q][e] is flat[(g-1)*K + e + 1] with g = c*Q + q + 1
        \* target_inds[c][q][0] = c  (lines 57-59), zero-based class
        target(g) == (g - 1) \div Q
    IN
    \* gather(2, target_inds): every index must address one of the K entries
    IF \E g \in 1..(C * Q) : target(g) >= K
    THEN <<[kind |-> "RuntimeError", at |-> "gather"], [kind |-> "locals", dists |-> dists]>>
    ELSE
    LET gathered == MkSeq(C * Q, LAMBDA g : flat[(g - 1) * K + target(g) + 1])
        loss_val == [neg_mean_of |-> gathered]
    IN CHOOSE out \in
          {<<[kind |-> "pair", loss |-> loss_val, acc |-> EqMean(yh, C, Q)],
             [kind |-> "locals", dists |-> dists, y_hat |-> yh]>> :
                yh \in {MkSeq(C * Q, LAMBDA g : ArgMax(flat, (g - 1) * K, K))}} : TRUE

\* Lines 54-66 on the distance tensor.
LossFromDists(C, Q, dists) ==
    IF dists.kind # "tensor"
    THEN <<dists, NoValue>>
    ELSE IF ~ViewOk(dists.rows * dists.cols, C, Q)
    THEN <<[kind |-> "RuntimeError", at |-> "view"], [kind |-> "locals", dists |-> dists]>>
    ELSE CHOOSE out \in
            {LossFromLogProbs(C, Q, dists, flat) :
                flat \in {Flatten(LogSoftmaxNeg(dists), dists.rows, dists.cols)}} : TRUE

\* prototypical_loss(device, n_classes, n_query, prototypes, query_samples),
\* lines 42-66: <<what the call ends with, its local tensors>>.
prototypical_loss(C, Q, protos, queries) ==
    CHOOSE out \in
        {LossFromDists(C, Q, dists) : dists \in {euclidean_dist(queries, protos)}} : TRUE

\* ---- inputs
ConstRow(d, v) == [c \in 1..d |-> v]
UnitRow(d, v)  == [c \in 1..d |-> IF c = 1 THEN v ELSE 0]

\* Every coordinate of an input is 0 or 10.
Points(d) == {ConstRow(d, 0), ConstRow(d, 10)}

\* Tensors of any shape: all rows zero ("zero"), or the even rows all 10
\* ("tens") or 10 in their first column only ("unit").
Patterned(n, d, pat) ==
    Tensor(n, d, [i \in 1..n |->
        IF pat = "zero" \/ i % 2 = 1 THEN ConstRow(d, 0)
        ELSE IF pat = "tens" THEN ConstRow(d, 10) ELSE UnitRow(d, 10)])

\* Episodes shaped as the caller builds them: C*Q queries grouped by class,
\* C prototypes, one feature dimension.
EpisodeInputs ==
    \E d \in 1..MaxDim :
    \E xv \in [1..(n_classes * n_query) -> Points(d)] :
    \E yv \in [1..n_classes -> Points(d)] :
        /\ query_samples = Tensor(n_classes * n_query, d, xv)
        /\ prototypes = Tensor(n_classes, d, yv)

\* Row counts around the contract's and feature dimensions, matching or not.
ShapeInputs ==
    \E n \in 0..(n_classes * n_query + 1), m \in 0..(n_classes + 1) :
    \E dx, dy \in 1..MaxDim :
    \E xpat \in {"zero", "tens"}, ypat \in {"zero", "tens", "unit"} :
        /\ query_samples = Patterned(n, dx, xpat)
        /\ prototypes = Patterned(m, dy, ypat)

InitLoss ==
    /\ n_classes \in 1..MaxClasses
    /\ n_query \in 1..MaxQuery
    /\ EpisodeInputs \/ ShapeInputs
    /\ locals = NoValue
    /\ pc = "start" /\ ret = NoValue
    /\ DatasetIdle /\ GaussIdle

CallEuclideanDist ==
    /\ pc = "start"
    /\ ret' = euclidean_dist(query_samples, prototypes)
    /\ locals' = NoValue
    /\ pc' = "dist_done"
    /\ UNCHANGED <<n_classes, n_query, prototypes, query_samples>>
    /\ UNCHANGED <<datasetVars, gaussVars>>

CallPrototypicalLoss ==
    /\ pc = "start"
    /\ LET out == prototypical_loss(n_classes, n_query, prototypes, query_samples)
       IN /\ ret' = out[1]
          /\ locals' = out[2]
    /\ pc' = "loss_done"
    /\ UNCHANGED <<n_classes, n_query, prototypes, query_samples>>
    /\ UNCHANGED <<datasetVars, gaussVars>>

NextLoss == CallEuclideanDist \/ CallPrototypicalLoss

SpecLoss == InitLoss /\ [][NextLoss]_vars

\* ------------------------------------------- claims on the loss functions
RECURSIVE SqDist(_, _, _)
\* Squared L2 distance of two rows over their first d columns.
SqDist(u, v, d) ==
    IF d = 0 THEN 0 ELSE (u[d] - v[d]) * (u[d] - v[d]) + SqDist(u, v, d - 1)

SameDim == query_samples.cols = prototypes.cols

DistMatrixCorrect ==
    (pc = "dist_done" /\ SameDim) =>
        /\ ret.kind = "tensor"
        /\ ret.rows = query_samples.rows
        /\ ret.cols = prototypes.rows
        /\ \A i \in 1..query_samples.rows : \A j \in 1..prototypes.rows :
              /\ ret.val[i][j] =
                    SqDist(query_samples.val[i], prototypes.val[j], query_samples.cols)
              /\ query_samples.val[i] = prototypes.val[j] => ret.val[i][j] = 0

\* C3: for X (n rows) and Y (m rows) of one feature dimension d,
\* euclidean_dist returns the n-by-m matrix of squared distances
\* sum_k (X[i,k] - Y[j,k])^2, exactly 0 where X[i] = Y[j], and leaves X and
\* Y as they were.
C3_SquaredDistanceMatrix ==
    /\ []DistMatrixCorrect
    /\ [][query_samples' = query_samples /\ prototypes' = prototypes]_vars

C3_Witness ==
    /\ pc = "dist_done" /\ ret.kind = "tensor"
    /\ ret.rows = 2 /\ ret.cols = 2 /\ query_samples.cols = 2
    /\ ret.val[1][1] = 0 /\ ret.val[2][1] = 200 /\ ret.val[2][2] = 100

\* C4: with different feature dimensions euclidean_dist raises the
\* dimension-mismatch error for any row counts and yields no matrix, and
\* prototypical_loss ends in that same error without a (loss, accuracy) pair.
C4_DimensionMismatchRaises ==
    ~SameDim =>
        /\ pc = "dist_done" => ret = [kind |-> "Exception"]
        /\ pc = "loss_done" => ret = [kind |-> "Exception"] /\ locals = NoValue

C4_Witness ==
    /\ pc = "loss_done" /\ ret.kind = "Exception"
    /\ query_samples.rows = 4 /\ prototypes.rows = 2
    /\ query_samples.cols = 2 /\ prototypes.cols = 1

\* Inputs shaped as the contract asks: C*Q queries, C prototypes, one d.
ProperEpisode ==
    /\ SameDim
    /\ query_samples.rows = n_classes * n_query
    /\ prototypes.rows = n_classes

\* Zero-based class of the prototype nearest to query g (the first one
\* among equally near prototypes).
NearestClass(g) ==
    LET dist(j) == SqDist(query_samples.val[g], prototypes.val[j], query_samples.cols)
    IN (CHOOSE j \in 1..prototypes.rows :
           /\ \A j2 \in 1..prototypes.rows : dist(j) <= dist(j2)
           /\ \A j2 \in 1..(j - 1) : dist(j) < dist(j2)) - 1

CorrectQueries ==
    {g \in 1..(n_classes * n_query) : NearestClass(g) = (g - 1) \div n_query}

\* C2: on a properly shaped episode the returned accuracy is the fraction of
\* the C*Q queries whose nearest prototype is that of their true class
\* i // n_query (so 1.0 when every query is nearest its own prototype).
C2_AccuracyIsFractionCorrect ==
    (pc = "loss_done" /\ ProperEpisode /\ ret.kind = "pair") =>
        ret.acc[1] * (n_classes * n_query) = Cardinality(CorrectQueries) * ret.acc[2]

IdenticalPrototypes ==
    \A i, j \in 1..prototypes.rows : prototypes.val[i] = prototypes.val[j]

\* C7: with identical prototypes on a properly shaped episode of C >= 2
\* classes the arg-max picks class index 0 for every query and the returned
\* accuracy is exactly 1/C.
C7_TiesGiveOneOverC ==
    (pc = "loss_done" /\ ProperEpisode /\ n_classes >= 2 /\ IdenticalPrototypes) =>
        /\ ret.kind = "pair"
        /\ \A g \in 1..(n_classes * n_query) : locals.y_hat[g] = 0
        /\ ret.acc[1] * n_classes = ret.acc[2]
        /\ ret.acc[2] > 0

C7_Witness ==
    /\ pc = "loss_done" /\ ProperEpisode /\ IdenticalPrototypes
    /\ n_classes = 2 /\ n_query = 2
    /\ ret.kind = "pair" /\ ret.acc = <<2, 4>>

\* C9 as stated: with a shared feature dimension prototypical_loss always
\* returns a (loss, accuracy) pair, whatever the row counts.
C9_AlwaysReturnsPair ==
    (pc = "loss_done" /\ SameDim) => ret.kind = "pair"

\* C9 amended: with a shared feature dimension prototypical_loss returns a
\* pair exactly when queries*prototypes is a positive multiple of C*Q whose
\* quotient is at least C; any other row counts end in a RuntimeError (from
\* the reshape or from the gather), never in the dimension-mismatch error.
C9_ReturnsPairIffShapesFit ==
    (pc = "loss_done" /\ SameDim) =>
        LET numel == query_samples.rows * prototypes.rows
            CQ    == n_classes * n_query
        IN IF numel > 0 /\ numel % CQ = 0 /\ numel \div CQ >= n_classes
           THEN ret.kind = "pair"
           ELSE ret.kind = "RuntimeError"

C9_Witness ==
    /\ pc = "loss_done" /\ SameDim /\ ret.kind = "pair"
    /\ query_samples.rows # n_classes * n_query
    /\ prototypes.rows # n_classes

\* ================================================================
\* loss_function.py: gaussian_dist
\* ================================================================
\* Size of an axis after broadcasting sizes a and b; -1 when they do not
\* broadcast (they must be equal, or one of them 1).
BroadcastSize(a, b) ==
    IF a = b THEN a ELSE IF a = 1 THEN b ELSE IF b = 1 THEN a ELSE 0 - 1

\* Number of chunks torch.split(x, s, dim=1) cuts `width` columns into.
SplitChunks(width, s) == (width + s - 1) \div s

\* Variant: the first half is rounded up and the rest ignored.
EncodedWidthCeil(m, width) ==
    IF m = "diagonal"
    THEN [kind |-> "ok", width |-> (width + 1) \div 2]
    ELSE IF m = "radial"
    THEN [kind |-> "ok", width |-> width - 1]
    ELSE [kind |-> "UnboundLocalError"]

\* Lines 104-107: the leading columns of x kept as x_encoded.  "diagonal"
\* unpacks torch.split(x, int(width/2), dim=1) into exactly two chunks;
\* "radial" slices x[:, :width-1]; any other mode leaves x_encoded unbound.
EncodedWidth(m, width) ==
    IF m = "diagonal"
    THEN LET s == width \div 2 IN
         IF s = 0 THEN [kind |-> "RuntimeError", at |-> "split"]
         ELSE IF SplitChunks(width, s) # 2 THEN [kind |-> "ValueError", at |-> "unpack"]
         ELSE [kind |-> "ok", width |-> s]
    ELSE IF m = "radial"
    THEN [kind |-> "ok", width |-> width - 1]
    ELSE [kind |-> "UnboundLocalError"]

\* One pass of the loop body (lines 110-112) for class i: the error that
\* stops it, or the column of n distances.  A distance is torch.norm of the
\* scaled difference, the square root of an integer here, kept as
\* [sqrt_of |-> that integer].
GaussColumn(x, e, y, sig, i) ==
    LET w == BroadcastSize(e, y.cols) IN
    IF w < 0 THEN [kind |-> "RuntimeError", at |-> "delta"]
    ELSE IF i > sig.rows THEN [kind |-> "IndexError", at |-> "sigmas"]
    ELSE
    LET w2 == BroadcastSize(w, sig.cols) IN
    IF w2 < 0 THEN [kind |-> "RuntimeError", at |-> "scale"]
    ELSE
    LET delta(r, c) == x.val[r][IF e = 1 THEN 1 ELSE c] - y.val[i][IF y.cols = 1 THEN 1 ELSE c]
        \* (delta * sqrt(sigma))^2 = delta^2 * sigma
        term(r, c) == Pow2(delta(r, IF w = 1 THEN 1 ELSE c))
                        * sig.val[i][IF sig.cols = 1 THEN 1 ELSE c]
    IN [kind |-> "column",
        val |-> MkSeq(x.rows, LAMBDA r :
                    [sqrt_of |-> SumSeq(MkSeq(w2, LAMBDA c : term(r, c)))])]

\* gaussian_dist(x, y, sigmas, mode), lines 95-113.
gaussian_dist(x, y, sig, m) ==
    IF y.rows = 0
    THEN \* int(n_points / n_classes), line 100
         [kind |-> "ZeroDivisionError"]
    ELSE
    LET enc == EncodedWidth(m, x.cols) IN
    IF enc.kind # "ok" THEN enc
    ELSE CHOOSE out \in
        {IF \E i \in 1..y.rows : cols[i].kind # "column"
         THEN \* the first class whose pass fails ends the call
              cols[CHOOSE i \in 1..y.rows :
                      /\ cols[i].kind # "column"
                      /\ \A i2 \in 1..(i - 1) : cols[i2].kind = "column"]
         ELSE [kind |-> "tensor", rows |-> x.rows, cols |-> y.rows,
               val |-> MkSeq(x.rows, LAMBDA r : MkSeq(y.rows, LAMBDA i : cols[i].val[r]))]
         : cols \in {MkSeq(y.rows, LAMBDA i : GaussColumn(x, enc.width, y, sig, i))}} : TRUE

\* ---- inputs
\* Rows that differ from each other and from column to column.
Ramp(n, d, on) == Tensor(n, d, [r \in 1..n |-> [c \in 1..d |-> IF on THEN r + c ELSE r]])

\* Inverse variances: all 1, or growing with class and column.
Sigmas(n, d, ones) == Tensor(n, d, [r \in 1..n |-> [c \in 1..d |-> IF ones THEN 1 ELSE r + c]])

InitGauss ==
    /\ \E n \in 0..MaxPoints, dx \in 1..MaxDimX, on \in BOOLEAN : gx = Ramp(n, dx, on)
    /\ \E m \in 0..MaxClasses, dy \in 1..MaxDim, on \in BOOLEAN : gy = Ramp(m, dy, on)
    /\ \E sr \in {gy.rows - 1, gy.rows}, ds \in 1..MaxDim, ones \in BOOLEAN :
          /\ sr >= 0
          /\ sigmas = Sigmas(sr, ds, ones)
    /\ mode \in {"radial", "diagonal", "other"}
    /\ pc = "start" /\ ret = NoValue
    /\ DatasetIdle /\ LossIdle

CallGaussianDist ==
    /\ pc = "start"
    /\ ret' = gaussian_dist(gx, gy, sigmas, mode)
    /\ pc' = "gauss_done"
    /\ UNCHANGED <<gaussVars, datasetVars, lossVars>>

NextGauss == CallGaussianDist

SpecGauss == InitGauss /\ [][NextGauss]_vars

\* ---------------------------------------------- claims on gaussian_dist
\* The width each mode is said to keep: d_x - 1, or floor(d_x / 2).
ClaimedWidth == IF mode = "radial" THEN gx.cols - 1 ELSE gx.cols \div 2

\* Inputs as the data model shapes them: a known mode, at least one class,
\* prototypes as wide as the truncated queries, one inverse-variance row
\* per class of the prototypes' width.
GaussInputsFit ==
    /\ mode \in {"radial", "diagonal"}
    /\ gx.cols >= 2
    /\ gy.rows >= 1
    /\ gy.cols = ClaimedWidth
    /\ sigmas.rows = gy.rows /\ sigmas.cols = gy.cols

RECURSIVE WeightedSqDist(_, _, _, _)
\* sum over the first d columns of (u[c] - v[c])^2 * s[c]
WeightedSqDist(u, v, s, d) ==
    IF d = 0 THEN 0
    ELSE (u[d] - v[d]) * (u[d] - v[d]) * s[d] + WeightedSqDist(u, v, s, d - 1)

AllSigmasOne == \A i \in 1..sigmas.rows : \A c \in 1..sigmas.cols : sigmas.val[i][c] = 1

\* C8: for every d_x >= 2 and both modes gaussian_dist returns a
\* (query rows) x (classes) matrix computed from exactly the first d_x - 1
\* columns of X ("radial") or the first floor(d_x / 2) columns ("diagonal"),
\* for even and odd d_x alike.
C8_TruncatesAndReturnsMatrix ==
    (pc = "gauss_done" /\ GaussInputsFit) =>
        /\ ret.kind = "tensor"
        /\ ret.rows = gx.rows /\ ret.cols = gy.rows
        /\ \A r \in 1..gx.rows : \A i \in 1..gy.rows :
              ret.val[r][i].sqrt_of =
                  WeightedSqDist(gx.val[r], gy.val[i], sigmas.val[i], ClaimedWidth)

\* The repository's Euclidean distance of truncated query r and prototype i.
EuclidEntry(r, i) ==
    LET e == ClaimedWidth
        x_encoded == Tensor(gx.rows, e, [q \in 1..gx.rows |-> SubSeq(gx.val[q], 1, e)])
    IN euclidean_dist(x_encoded, gy).val[r][i]

\* C5 as stated: with all inverse variances 1 every entry of gaussian_dist
\* equals the entry euclidean_dist returns for the truncated queries and
\* the prototypes.  (sqrt(s) = v exactly when s = v * v.)
C5_GaussianEqualsEuclideanDist ==
    (pc = "gauss_done" /\ GaussInputsFit /\ AllSigmasOne /\ ret.kind = "tensor") =>
        \A r \in 1..gx.rows : \A i \in 1..gy.rows :
            ret.val[r][i].sqrt_of = EuclidEntry(r, i) * EuclidEntry(r, i)

\* C5 amended: with all inverse variances 1 gaussian_dist returns the
\* unsquared norm: every entry is the square root of the entry
\* euclidean_dist returns for the truncated queries and the prototypes;
\* "diagonal" on an odd d_x returns no matrix at all.
C5_GaussianIsRootOfEuclideanDist ==
    (pc = "gauss_done" /\ GaussInputsFit /\ AllSigmasOne) =>
        IF mode = "diagonal" /\ gx.cols % 2 = 1
        THEN ret.kind = "ValueError"
        ELSE /\ ret.kind = "tensor"
             /\ ret.rows = gx.rows /\ ret.cols = gy.rows
             /\ \A r \in 1..gx.rows : \A i \in 1..gy.rows :
                   ret.val[r][i].sqrt_of = EuclidEntry(r, i)

C5_Witness ==
    /\ pc = "gauss_done" /\ GaussInputsFit /\ AllSigmasOne
    /\ ret.kind = "tensor" /\ gx.rows = 2 /\ gy.rows = 2 /\ gy.cols = 2
    /\ \E r \in 1..2 : \E i \in 1..2 : ret.val[r][i].sqrt_of >= 2
    /\ \E r \in 1..2 : \E i \in 1..2 : ret.val[r][i].sqrt_of = 0

====
